---------------------------- MODULE Spec2Model ----------------------------
(***************************************************************************)
(* College Invaders: the enemy grid, the two projectile pools, the         *)
(* collision pass and the game loop (script.js startGame), as a state      *)
(* machine.                                                                *)
(*                                                                         *)
(* Coordinates.  The program computes with JavaScript Numbers.  Every      *)
(* coordinate it can produce is a multiple of 1/110 pixel: enemies move by *)
(* 0.3 px, and the player's y is (480 - 50) / 1.1 = 4300/11 px.  The model *)
(* therefore counts in units of 1/110 pixel (PX units per pixel), which    *)
(* makes all its arithmetic exact.  The rounding error of repeated         *)
(* floating point additions of 0.3 is not modelled.                        *)
(*                                                                         *)
(* The grid is the source's 5 x 11 grid.  Drawing on the canvas, the       *)
(* images and the high score, which is display only, are left out.         *)
(***************************************************************************)
EXTENDS Integers, Sequences, FiniteSets, TLC

VARIABLES
    gameState,                  \* script.js: let gameState
    menu,                       \* Menu: menuState, selection, playGame, retry
    player,                     \* Player: xPosition, rightPressed, leftPressed, shooting
    Bulletcon,                  \* the player's BulletControl
    enemyProjectileController,  \* the enemies' BulletControl
    enemyGrid,                  \* EnemyGridController.enemyGrid
    health,                     \* Lives.js: hp, maxHP, tempHPBlock
    scoreboard,                 \* Scoreboard.js: score, scoreStorage
    last,                       \* what the last handler did (history, not program state)
    ticks,                      \* number of startGame calls so far
    keys                        \* number of keyboard events so far

vars == <<gameState, menu, player, Bulletcon, enemyProjectileController,
          enemyGrid, health, scoreboard, last, ticks, keys>>

-----------------------------------------------------------------------------
(* Units and constants                                                     *)

\* units per pixel: tenths for the enemies' 0.3 px step, elevenths for the player's y
PX == 10 * 11

CANVAS == [CONTEXT |-> "2d", WIDTH |-> 640 * PX, HEIGHT |-> 480 * PX]

PADDING == [SIDE |-> 60 * PX, TOP |-> 40 * PX, BOTTOM |-> 80 * PX]

GRID_SIZE == [ROWS |-> 5, COLUMNS |-> 11]

\* in pixels: 200 and 520
gridArea ==
    [HEIGHT |-> (CANVAS.HEIGHT - (PADDING.TOP + PADDING.BOTTOM)) \div PX - 160,
     WIDTH |-> (CANVAS.WIDTH - PADDING.SIDE * 2) \div PX]

\* Math.floor(gridArea.HEIGHT / GRID_SIZE.ROWS) and
\* Math.floor(gridArea.WIDTH / GRID_SIZE.COLUMNS - 7): 40 px each
GRID_SPACING ==
    [VERTICAL |-> (gridArea.HEIGHT \div GRID_SIZE.ROWS) * PX,
     HORIZONTAL |->
        ((gridArea.WIDTH - 7 * GRID_SIZE.COLUMNS) \div GRID_SIZE.COLUMNS) * PX]

GAME_STATE == [MENU |-> "Menu", RUNNING |-> "Running", GAME_OVER |-> "Game Over"]

\* menuState is "Main Menu" or one of the MENU_OPTIONS numbers; 0 stands for "Main Menu"
MAIN_MENU_SCREEN == 0
MENU_OPTIONS == [PLAY |-> 1, HOW_TO_PLAY |-> 2, CONTROLS |-> 3, GAME_OVER |-> 4]

-----------------------------------------------------------------------------
(* Enemy.js                                                                *)

EnemyWidth == 30 * PX
EnemyHeight == 40 * PX
horizontalMoveSpeed == (3 * PX) \div 10
verticalMoveSpeed == 20 * PX

Enemy(xOffset, yOffset) ==
    [alive |-> TRUE, xPosition |-> xOffset, yPosition |-> yOffset, isGoingRight |-> TRUE]

\* the value `false` that enemyCollisionHandler stores in the cell of a destroyed enemy
Tombstone ==
    [alive |-> FALSE, xPosition |-> 0, yPosition |-> 0, isGoingRight |-> FALSE]

\* a variant of Enemy.move that looks at no direction
EnemyMoveRightOnly(e) == [e EXCEPT !.xPosition = @ + horizontalMoveSpeed]

EnemyMove(e) ==
    IF e.isGoingRight
    THEN [e EXCEPT !.xPosition = @ + horizontalMoveSpeed]
    ELSE [e EXCEPT !.xPosition = @ - horizontalMoveSpeed]

\* Enemy.draw: blits the sprite, advances the animation (not modelled), then move()
EnemyDraw(e) == EnemyMove(e)

EnemyMoveDown(e) ==
    IF verticalMoveSpeed > 0 THEN [e EXCEPT !.yPosition = @ + verticalMoveSpeed] ELSE e

setDirectionRight(e) == [e EXCEPT !.isGoingRight = TRUE]
setDirectionLeft(e) == [e EXCEPT !.isGoingRight = FALSE]

EnemyEdges(e) ==
    [top |-> e.yPosition, bottom |-> e.yPosition + EnemyHeight,
     left |-> e.xPosition, right |-> e.xPosition + EnemyWidth]

getMiddlePosition(e) == e.xPosition + EnemyWidth \div 2

-----------------------------------------------------------------------------
(* Bullet.js                                                               *)

BulletWidth == 20 * PX
BulletHeight == 25 * PX

Bullet(x, y, speed, shooter) == [x |-> x, y |-> y, speed |-> speed, shooter |-> shooter]

\* Bullet.draw: blits the sprite, then this.y -= this.speed
BulletDraw(b) == [b EXCEPT !.y = @ - b.speed]

BulletEdges(b) ==
    [top |-> b.y, bottom |-> b.y + BulletHeight, left |-> b.x, right |-> b.x + BulletWidth]

-----------------------------------------------------------------------------
(* BulletControl.js                                                        *)

RemoveAt(s, i) == SubSeq(s, 1, i - 1) \o SubSeq(s, i + 1, Len(s))

\* Array.prototype.indexOf, 1-based; 0 when absent.  No two projectiles of a pool are
\* equal as values (they differ in x or in y), so equality stands for object identity.
indexOf(s, x) ==
    IF \E i \in 1..Len(s) : s[i] = x
    THEN CHOOSE i \in 1..Len(s) : s[i] = x /\ \A j \in 1..(i - 1) : s[j] # x
    ELSE 0

\* new BulletControl(CANVAS): bullets = [], waitTime = 0, this.shooter not yet set
NewBulletControl == [bullets |-> <<>>, waitTime |-> 0, shooter |-> "undefined"]

BulletControlShoot(bc, x, y, speed, delay, shooter) ==
    LET admitted == bc.waitTime <= 0
        b1 == IF admitted
              THEN [bc EXCEPT !.shooter = shooter,
                              !.bullets = Append(@, Bullet(x, y, speed, shooter)),
                              !.waitTime = delay]
              ELSE [bc EXCEPT !.shooter = shooter]
    IN  IF shooter # "player" THEN [b1 EXCEPT !.waitTime = @ - 1] ELSE b1

\* isOffScreen reads this.canvas.height.  this.canvas is the CANVAS object of
\* uiConstants.js, whose fields are CONTEXT, WIDTH and HEIGHT: it has no field
\* `height`, so the read yields undefined, -undefined is NaN, and a comparison
\* with NaN is false.
isOffScreen(b) ==
    IF "height" \in DOMAIN CANVAS THEN b.y <= -(CANVAS.height) ELSE FALSE

\* bullets.forEach of BulletControl.draw: index k is visited while it is inside the
\* array; a splice moves the following elements down, so the element after a removed
\* one is not visited.  Bullet.draw still runs on the removed object.
RECURSIVE DrawBullets(_, _)
DrawBullets(bs, k) ==
    IF k > Len(bs) THEN bs
    ELSE IF isOffScreen(bs[k])
         THEN DrawBullets(RemoveAt(bs, indexOf(bs, bs[k])), k + 1)
         ELSE DrawBullets([bs EXCEPT ![k] = BulletDraw(bs[k])], k + 1)

BulletControlDraw(bc) ==
    LET b1 == IF bc.shooter = "player" THEN [bc EXCEPT !.waitTime = @ - 1] ELSE bc
    IN  [b1 EXCEPT !.bullets = DrawBullets(@, 1)]

\* a variant of destroyBullet without the test of the index: splice(-1, 1) removes the
\* last element
destroyBulletUnchecked(bc, bulletToDestroy) ==
    LET bulletIndex == indexOf(bc.bullets, bulletToDestroy)
    IN  IF bulletIndex > 0 THEN [bc EXCEPT !.bullets = RemoveAt(@, bulletIndex)]
        ELSE [bc EXCEPT !.bullets = SubSeq(@, 1, Len(@) - 1)]

destroyBullet(bc, bulletToDestroy) ==
    LET bulletIndex == indexOf(bc.bullets, bulletToDestroy)
    IN  IF bulletIndex > 0 THEN [bc EXCEPT !.bullets = RemoveAt(@, bulletIndex)] ELSE bc

clearBullets(bc) == [bc EXCEPT !.bullets = <<>>]

-----------------------------------------------------------------------------
(* EnemyGridController.js                                                  *)

Rows(grid) == 1..Len(grid)

\* a variant of createEnemies without the first line: the rows are pushed onto the
\* grid as it is
createEnemiesOntoOldGrid(grid) ==
    grid \o
    [i \in 1..GRID_SIZE.ROWS |->
        [j \in 1..GRID_SIZE.COLUMNS |->
            Enemy(PADDING.SIDE + GRID_SPACING.HORIZONTAL * j, GRID_SPACING.VERTICAL * i)]]

\* this.enemyGrid.length = 0, then one push per row
createEnemies(grid) ==
    SubSeq(grid, 1, 0) \o
    [i \in 1..GRID_SIZE.ROWS |->
        [j \in 1..GRID_SIZE.COLUMNS |->
            Enemy(PADDING.SIDE + GRID_SPACING.HORIZONTAL * j, GRID_SPACING.VERTICAL * i)]]

\* draw, first loop: enemy.draw for every cell that holds an enemy
DrawEnemies(grid) ==
    [r \in Rows(grid) |->
        [c \in 1..Len(grid[r]) |->
            IF grid[r][c].alive THEN EnemyDraw(grid[r][c]) ELSE grid[r][c]]]

\* a variant of clearEnemyGridRows that removes every dead row below the lowest row
\* that holds an enemy, not only the bottom row
clearEveryDeadBottomRow(grid) ==
    LET live == {row \in Rows(grid) : \E col \in 1..Len(grid[row]) : grid[row][col].alive}
    IN  SubSeq(grid, 1, IF live = {} THEN 0
                        ELSE CHOOSE row \in live : \A other \in live : other <= row)

\* a variant of clearEnemyGridRows that puts a new row of enemies in the place of a
\* dead bottom row
replaceDeadBottomRow(grid) ==
    LET bottomRow == grid[Len(grid)]
    IN  IF \E col \in 1..Len(bottomRow) : bottomRow[col].alive
        THEN grid
        ELSE [grid EXCEPT ![Len(grid)] = createEnemies(<<>>)[1]]

\* a variant of clearEnemyGridRows that never removes the only row
clearEnemyGridRowsButLast(grid) ==
    LET bottomRow == grid[Len(grid)]
    IN  IF Len(grid) = 1 \/ \E col \in 1..Len(bottomRow) : bottomRow[col].alive
        THEN grid
        ELSE SubSeq(grid, 1, Len(grid) - 1)

\* precondition: the grid has a row (enemyGrid[-1].length throws otherwise)
clearEnemyGridRows(grid) ==
    LET bottomRow == grid[Len(grid)]
    IN  IF \E col \in 1..Len(bottomRow) : bottomRow[col].alive
        THEN grid
        ELSE SubSeq(grid, 1, Len(grid) - 1)

\* the tracker array: per column index, the number of enemies alive in that column
emptyColumnIndexes(grid) ==
    [col \in 1..GRID_SIZE.COLUMNS |->
        Cardinality({row \in Rows(grid) : col <= Len(grid[row]) /\ grid[row][col].alive})]

\* Array.prototype.splice(colIdx, 1): nothing is removed past the end of the row
SpliceColumn(grid, colIdx) ==
    [row \in Rows(grid) |->
        IF colIdx <= Len(grid[row]) THEN RemoveAt(grid[row], colIdx) ELSE grid[row]]

\* second loop of clearEnemyGridColumns: colIdx runs upwards over the tracker array,
\* which was filled before any column was removed
RECURSIVE RemoveEmptyColumns(_, _, _)
RemoveEmptyColumns(grid, tracker, colIdx) ==
    IF colIdx > Len(tracker) THEN grid
    ELSE IF tracker[colIdx] = 0
         THEN RemoveEmptyColumns(SpliceColumn(grid, colIdx), tracker, colIdx + 1)
         ELSE RemoveEmptyColumns(grid, tracker, colIdx + 1)

clearEnemyGridColumns(grid) == RemoveEmptyColumns(grid, emptyColumnIndexes(grid), 1)

\* returns this.enemyGrid.length, which the callers use as a truth value
anyEnemiesAlive(grid) == Len(grid)

\* the enemies at index 0 of their row, by rising row
findLeftMostEnemies(grid) ==
    SelectSeq([row \in Rows(grid) |->
                  IF Len(grid[row]) > 0 THEN grid[row][1] ELSE Tombstone],
              LAMBDA e : e.alive)

\* the enemies at the last index of their row, by rising row
findRightMostEnemies(grid) ==
    SelectSeq([row \in Rows(grid) |->
                  IF Len(grid[row]) > 0 THEN grid[row][Len(grid[row])] ELSE Tombstone],
              LAMBDA e : e.alive)

\* the inner loop of findBottomMostEnemies: from `row` upwards, the first cell that
\* holds an enemy; Tombstone when the loop ends without a push
RECURSIVE SearchUpwards(_, _, _)
SearchUpwards(grid, row, col) ==
    IF row < 1 THEN Tombstone
    ELSE IF grid[row][col].alive THEN grid[row][col]
    ELSE SearchUpwards(grid, row - 1, col)

\* a variant of BottomMostInColumn without the search upwards
BottomRowOnly(grid, col) == grid[Len(grid)][col]

\* for a column of the bottom row: the enemy there, else the first enemy found going up
BottomMostInColumn(grid, col) ==
    IF grid[Len(grid)][col].alive
    THEN grid[Len(grid)][col]
    ELSE SearchUpwards(grid, Len(grid) - 1, col)

\* precondition: the grid has a row
findBottomMostEnemies(grid) ==
    SelectSeq([col \in 1..Len(grid[Len(grid)]) |-> BottomMostInColumn(grid, col)],
              LAMBDA e : e.alive)

\* a variant of changeEnemyDirection that moves down only the enemies of the top row
changeDirectionTopRowDown(grid, toGoRight) ==
    [r \in Rows(grid) |->
        [c \in 1..Len(grid[r]) |->
            IF grid[r][c].alive
            THEN LET e == IF toGoRight THEN setDirectionRight(grid[r][c])
                                       ELSE setDirectionLeft(grid[r][c])
                 IN  IF r = 1 THEN EnemyMoveDown(e) ELSE e
            ELSE grid[r][c]]]

\* a variant of changeEnemyDirection that moves the enemies down and sets no direction
changeEnemyDirectionDescendOnly(grid, toGoRight) ==
    [r \in Rows(grid) |->
        [c \in 1..Len(grid[r]) |->
            IF grid[r][c].alive THEN EnemyMoveDown(grid[r][c]) ELSE grid[r][c]]]

\* a variant of changeEnemyDirection that turns the enemies of the bottom row only
changeDirectionOfBottomRow(grid, toGoRight) ==
    [r \in Rows(grid) |->
        [c \in 1..Len(grid[r]) |->
            IF grid[r][c].alive /\ r = Len(grid)
            THEN EnemyMoveDown(IF toGoRight THEN setDirectionRight(grid[r][c])
                                            ELSE setDirectionLeft(grid[r][c]))
            ELSE grid[r][c]]]

changeEnemyDirection(grid, toGoRight) ==
    [r \in Rows(grid) |->
        [c \in 1..Len(grid[r]) |->
            IF grid[r][c].alive
            THEN EnemyMoveDown(IF toGoRight THEN setDirectionRight(grid[r][c])
                                            ELSE setDirectionLeft(grid[r][c]))
            ELSE grid[r][c]]]

\* a variant of HitsLeftBound that is also true when the right bound is hit
HitsLeftOrRightBound(grid) ==
    LET leftMostEnemies == findLeftMostEnemies(grid)
        rightMostEnemies == findRightMostEnemies(grid)
    IN  \/ Len(leftMostEnemies) > 0 /\ EnemyEdges(leftMostEnemies[1]).left <= PADDING.SIDE
        \/ Len(rightMostEnemies) > 0
            /\ EnemyEdges(rightMostEnemies[1]).right >= CANVAS.WIDTH - PADDING.SIDE

\* the two tests of move().  Both lists are built before the first test; the enemies
\* in them are shared with the grid, and changeEnemyDirection leaves x alone.
\* a variant of HitsLeftBound whose bound lies one step further out
HitsLeftBoundOneStepOut(grid) ==
    LET leftMostEnemies == findLeftMostEnemies(grid)
    IN  Len(leftMostEnemies) > 0
        /\ EnemyEdges(leftMostEnemies[1]).left <= PADDING.SIDE - horizontalMoveSpeed

HitsLeftBound(grid) ==
    LET leftMostEnemies == findLeftMostEnemies(grid)
    IN  Len(leftMostEnemies) > 0 /\ EnemyEdges(leftMostEnemies[1]).left <= PADDING.SIDE

HitsRightBound(grid) ==
    LET rightMostEnemies == findRightMostEnemies(grid)
    IN  Len(rightMostEnemies) > 0
        /\ EnemyEdges(rightMostEnemies[1]).right >= CANVAS.WIDTH - PADDING.SIDE

\* the calls of changeEnemyDirection that move() makes, as the list of their arguments
BounceCalls(grid) ==
    (IF HitsLeftBound(grid) THEN <<TRUE>> ELSE <<>>)
        \o (IF HitsRightBound(grid) THEN <<FALSE>> ELSE <<>>)

RECURSIVE ApplyBounces(_, _)
ApplyBounces(grid, calls) ==
    IF calls = <<>> THEN grid
    ELSE ApplyBounces(changeEnemyDirection(grid, Head(calls)), Tail(calls))

move(grid) == ApplyBounces(grid, BounceCalls(grid))

\* shoot(): one request per bottom-most enemy, each with its own Math.random() delay
\* (delays[k] is the delay drawn for the k-th of them), then the pool's draw
RECURSIVE ShootRequests(_, _, _, _)
ShootRequests(bc, enemies, delays, k) ==
    IF k > Len(enemies) THEN bc
    ELSE ShootRequests(
            BulletControlShoot(bc, getMiddlePosition(enemies[k]),
                               EnemyEdges(enemies[k]).bottom, -3 * PX, delays[k], "enemy_1"),
            enemies, delays, k + 1)

shoot(grid, bc, delays) ==
    BulletControlDraw(ShootRequests(bc, findBottomMostEnemies(grid), delays, 1))

\* what one call bc.shoot(x, y, speed, delay, shooter) did (history): the counter
\* before and after, whether the array grew, whether the old items are as before
Request(bc, x, y, speed, delay, shooter) ==
    LET after == BulletControlShoot(bc, x, y, speed, delay, shooter)
    IN  [x |-> x, y |-> y, speed |-> speed, delay |-> delay, shooter |-> shooter,
         waitBefore |-> bc.waitTime, waitAfter |-> after.waitTime,
         admitted |-> Len(after.bullets) = Len(bc.bullets) + 1,
         kept |-> SubSeq(after.bullets, 1, Len(bc.bullets)) = bc.bullets,
         sizeBefore |-> Len(bc.bullets), sizeAfter |-> Len(after.bullets)]

\* the calls of enemyProjectileController.shoot that shoot() makes, in order
RECURSIVE ShootLog(_, _, _, _)
ShootLog(bc, enemies, delays, k) ==
    IF k > Len(enemies) THEN <<>>
    ELSE <<Request(bc, getMiddlePosition(enemies[k]), EnemyEdges(enemies[k]).bottom,
                   -3 * PX, delays[k], "enemy_1")>>
         \o ShootLog(BulletControlShoot(bc, getMiddlePosition(enemies[k]),
                                        EnemyEdges(enemies[k]).bottom, -3 * PX,
                                        delays[k], "enemy_1"),
                     enemies, delays, k + 1)

\* a variant of checkIfEnemyMovesPastPlayer with >= for >
checkIfEnemyReachesPlayer(grid) ==
    /\ anyEnemiesAlive(grid) # 0
    /\ LET playerSpace == CANVAS.HEIGHT - PADDING.BOTTOM
           bottomRow == grid[Len(grid)]
       IN  \E i \in 1..Len(bottomRow) :
              bottomRow[i].alive /\ EnemyEdges(bottomRow[i]).bottom >= playerSpace

\* a variant of checkIfEnemyMovesPastPlayer that reads the row created last
checkIfLastCreatedRowMovesPastPlayer(grid) ==
    /\ Len(grid) >= GRID_SIZE.ROWS
    /\ LET playerSpace == CANVAS.HEIGHT - PADDING.BOTTOM
           bottomRow == grid[GRID_SIZE.ROWS]
       IN  \E i \in 1..Len(bottomRow) :
              bottomRow[i].alive /\ EnemyEdges(bottomRow[i]).bottom > playerSpace

checkIfEnemyMovesPastPlayer(grid) ==
    /\ anyEnemiesAlive(grid) # 0
    /\ LET playerSpace == CANVAS.HEIGHT - PADDING.BOTTOM
           bottomRow == grid[Len(grid)]
       IN  \E i \in 1..Len(bottomRow) :
              bottomRow[i].alive /\ EnemyEdges(bottomRow[i]).bottom > playerSpace

-----------------------------------------------------------------------------
(* Lives.js and Scoreboard.js                                              *)

\* let maxHP = 3; let hp = maxHP; let tempHPBlock = false
NewHealth == [hp |-> 3, maxHP |-> 3, tempHPBlock |-> FALSE]

healthModifier(h, i) ==
    LET m == IF h.tempHPBlock THEN h.maxHP ELSE h.maxHP + i
    IN  [h EXCEPT !.hp = @ + i, !.maxHP = IF m > 3 THEN 3 ELSE m]

\* drawLives ends with tempHP(): s = Scoreboard.score is a read of the class, which
\* has no such property, and undefined >= 10000 is false; so the test is hp > 3
drawLives(h) == [h EXCEPT !.tempHPBlock = (h.hp > 3)]

resetHp(h) == [h EXCEPT !.maxHP = 3, !.hp = 3]

\* let score = 0; let scoreStorage = 0 (the high score is display only, not modelled)
NewScoreboard == [score |-> 0, scoreStorage |-> 0]

\* a variant of addToScore that leaves the displayed score alone
addToScoreStorageOnly(sb, num) == [sb EXCEPT !.scoreStorage = @ + num]

addToScore(sb, num) == [sb EXCEPT !.score = @ + num, !.scoreStorage = @ + num]

resetScore(sb) == [sb EXCEPT !.score = 0, !.scoreStorage = 0]

-----------------------------------------------------------------------------
(* The objects of script.js as one record w, and the handlers on it        *)
(* w.hits, w.shots and w.threw are history: the enemies each handled       *)
(* projectile destroyed, and whether the handler has thrown a TypeError    *)

\* Scoreboard.addExtra, called by drawScoreboard
addExtra(w) ==
    IF w.scoreboard.scoreStorage = 10000
    THEN [w EXCEPT !.scoreboard.scoreStorage = @ - 10000,
                   !.health = healthModifier(@, 1)]
    ELSE w

drawScoreboard(w) == addExtra(w)

drawGameUiComponents(w) ==
    LET w1 == drawScoreboard(w) IN [w1 EXCEPT !.health = drawLives(@)]

(* Player.js *)
PlayerWidth == 30 * PX
PlayerHeight == 50 * PX
movementSpeed == 5 * PX
\* yPosition = (CANVAS.HEIGHT - this.height) / 1.1, never changed afterwards
PlayerY == ((CANVAS.HEIGHT - PlayerHeight) * 10) \div 11

NewPlayer ==
    [xPosition |-> (CANVAS.WIDTH - PlayerWidth) \div 2,
     rightPressed |-> FALSE, leftPressed |-> FALSE, shooting |-> FALSE]

PlayerEdges(p) ==
    [top |-> PlayerY, bottom |-> PlayerY + PlayerHeight,
     left |-> p.xPosition, right |-> p.xPosition + PlayerWidth]

\* a variant of Player.movePlayer whose right-hand test is on the canvas width
movePlayerToCanvasEdge(p) ==
    IF p.rightPressed /\ p.xPosition < CANVAS.WIDTH - PlayerWidth
    THEN [p EXCEPT !.xPosition = @ + movementSpeed]
    ELSE IF p.leftPressed /\ p.xPosition > PADDING.SIDE
         THEN [p EXCEPT !.xPosition = @ - movementSpeed]
         ELSE p

movePlayer(p) ==
    IF p.rightPressed /\ p.xPosition < CANVAS.WIDTH - (PADDING.SIDE + PlayerWidth)
    THEN [p EXCEPT !.xPosition = @ + movementSpeed]
    ELSE IF p.leftPressed /\ p.xPosition > PADDING.SIDE
         THEN [p EXCEPT !.xPosition = @ - movementSpeed]
         ELSE p

\* a variant of Player.shoot with delay 20
PlayerShootDelay20(p, bc) ==
    BulletControlDraw(
        IF p.shooting
        THEN BulletControlShoot(bc, p.xPosition + PlayerWidth \div 2,
                                PlayerY - PlayerHeight, 5 * PX, 20, "player")
        ELSE bc)

\* Player.shoot: speed 5, delay 39
PlayerShoot(p, bc) ==
    BulletControlDraw(
        IF p.shooting
        THEN BulletControlShoot(bc, p.xPosition + PlayerWidth \div 2,
                                PlayerY - PlayerHeight, 5 * PX, 39, "player")
        ELSE bc)

\* w.fire is history: the call of Bulletcon.shoot that Player.shoot made, if any, and
\* the pool's counter before Player.shoot and after the pool's draw
NoFire == [drew |-> FALSE, requests |-> <<>>, waitBefore |-> 0, waitAfter |-> 0]

drawPlayer(w) ==
    LET p == movePlayer(w.player)
    IN  [w EXCEPT
            !.player = p,
            !.Bulletcon = PlayerShoot(p, @),
            !.fire = [drew |-> TRUE,
                      requests |->
                          IF p.shooting
                          THEN <<Request(w.Bulletcon, p.xPosition + PlayerWidth \div 2,
                                         PlayerY - PlayerHeight, 5 * PX, 39, "player")>>
                          ELSE <<>>,
                      waitBefore |-> w.Bulletcon.waitTime,
                      waitAfter |-> PlayerShoot(p, w.Bulletcon).waitTime]]

(* Menu.js *)
NewMenu ==
    [menuState |-> MAIN_MENU_SCREEN, selection |-> MENU_OPTIONS.PLAY,
     playGame |-> FALSE, retry |-> FALSE]

setupGameOverMenuScreen(m) ==
    [m EXCEPT !.selection = MENU_OPTIONS.GAME_OVER,
              !.menuState = MENU_OPTIONS.GAME_OVER,
              !.playGame = FALSE]

\* Menu.draw(scoreboard): withScore tells whether the caller passed the function that
\* draws the score.  removeMenuEventListeners removes a listener that was never
\* added (a fresh arrow function), so the key handler stays installed.
MenuDraw(w, withScore) ==
    CASE w.menu.menuState = MENU_OPTIONS.PLAY ->
            [w EXCEPT !.menu.playGame = TRUE, !.menu.retry = FALSE]
      [] w.menu.menuState = MENU_OPTIONS.CONTROLS -> drawPlayer(w)
      [] w.menu.menuState = MENU_OPTIONS.GAME_OVER ->
            IF withScore THEN drawScoreboard(w) ELSE [w EXCEPT !.threw = TRUE]
      [] OTHER -> w

(* script.js: the collision pass *)
\* a variant of collisionDetected with < and > for <= and >=
collisionDetectedOnTouch(sprite, projectile) ==
    ~ (\/ projectile.bottom < sprite.top
       \/ projectile.top > sprite.bottom
       \/ projectile.left > sprite.right
       \/ projectile.right < sprite.left)

collisionDetected(sprite, projectile) ==
    ~ (\/ projectile.bottom <= sprite.top
       \/ projectile.top >= sprite.bottom
       \/ projectile.left >= sprite.right
       \/ projectile.right <= sprite.left)

\* w.seen is history: the projectiles the handler was called with
playerCollisionHandler(w, projectile) ==
    IF collisionDetected(PlayerEdges(w.player), BulletEdges(projectile))
    THEN [w EXCEPT !.enemyProjectileController = destroyBullet(@, projectile),
                   !.health = healthModifier(@, -1),
                   !.seen = Append(@, projectile)]
    ELSE [w EXCEPT !.seen = Append(@, projectile)]

\* the cells whose enemy the projectile overlaps
EnemiesHit(grid, projectile) ==
    {rc \in {<<row, col>> : row \in Rows(grid), col \in 1..GRID_SIZE.COLUMNS} :
        /\ rc[2] <= Len(grid[rc[1]])
        /\ grid[rc[1]][rc[2]].alive
        /\ collisionDetected(EnemyEdges(grid[rc[1]][rc[2]]), BulletEdges(projectile))}

\* the two nested forEach loops run over the whole grid whatever they find: for every
\* enemy the projectile overlaps they call destroyBullet (which removes the projectile
\* the first time and finds nothing afterwards), store false in the cell and add 250
enemyCollisionHandler(w, projectile) ==
    LET struck == EnemiesHit(w.enemyGrid, projectile)
    IN  IF struck = {}
        THEN [w EXCEPT !.hits = Append(@, 0),
                       !.shots = Append(@, [projectile |-> projectile, struck |-> {}])]
        ELSE [w EXCEPT
                !.Bulletcon = destroyBullet(@, projectile),
                !.enemyGrid = [row \in Rows(w.enemyGrid) |->
                                 [col \in 1..Len(w.enemyGrid[row]) |->
                                     IF <<row, col>> \in struck
                                     THEN Tombstone ELSE w.enemyGrid[row][col]]],
                !.scoreboard = addToScore(@, 250 * Cardinality(struck)),
                !.hits = Append(@, Cardinality(struck)),
                !.shots = Append(@, [projectile |-> projectile, struck |-> struck])]

\* searchForCollisions: forEach over the pool's own array, which the handler shortens
\* when it destroys the projectile; index k is visited while it is inside the array
RECURSIVE SearchPlayerCollisions(_, _)
SearchPlayerCollisions(w, k) ==
    IF k > Len(w.enemyProjectileController.bullets) THEN w
    ELSE SearchPlayerCollisions(
            playerCollisionHandler(w, w.enemyProjectileController.bullets[k]), k + 1)

RECURSIVE SearchEnemyCollisions(_, _)
SearchEnemyCollisions(w, k) ==
    IF k > Len(w.Bulletcon.bullets) THEN w
    ELSE SearchEnemyCollisions(enemyCollisionHandler(w, w.Bulletcon.bullets[k]), k + 1)

\* w.pass is history: the objects when the pass starts (start) and between its two
\* searches (mid)
Snapshot(w) ==
    [hp |-> w.health.hp, score |-> w.scoreboard.score, enemyGrid |-> w.enemyGrid,
     Bulletcon |-> w.Bulletcon.bullets,
     enemyProjectileController |-> w.enemyProjectileController.bullets]

NoPass == [ran |-> FALSE, start |-> <<>>, mid |-> <<>>]

checkForCollisions(w) ==
    LET mid == SearchPlayerCollisions(w, 1)
    IN  [SearchEnemyCollisions(mid, 1) EXCEPT
            !.pass = [ran |-> TRUE, start |-> Snapshot(w), mid |-> Snapshot(mid)]]

checkHealth(w) ==
    IF w.health.hp = 0
    THEN [w EXCEPT !.gameState = GAME_STATE.GAME_OVER,
                   !.menu = setupGameOverMenuScreen(@)]
    ELSE w

\* a variant of createNewEnemyWave without the last call
createNewEnemyWaveKeepingEnemyPool(w) ==
    [w EXCEPT !.enemyGrid = createEnemies(@),
              !.Bulletcon = clearBullets(@)]

createNewEnemyWave(w) ==
    [w EXCEPT !.enemyGrid = createEnemies(@),
              !.Bulletcon = clearBullets(@),
              !.enemyProjectileController = clearBullets(@)]

(* EnemyGridController.draw(enemyProjectileController), with what it did recorded   *)
(* in w.trace: the grid after the enemies were drawn (pre), after the two clear    *)
(* calls (post) and when draw returns (drawn), and the calls it made               *)
NoTrace ==
    [drew |-> FALSE, pre |-> <<>>, post |-> <<>>, drawn |-> <<>>,
     moved |-> FALSE, shot |-> FALSE, bounces |-> <<>>, requests |-> <<>>,
     waitBefore |-> 0, waitAfter |-> 0]

\* w.calls is history: the grid operations that read the bottom row, in the order of
\* their calls, each with the number of rows the grid had at the call
Call(operation, grid) == [operation |-> operation, rows |-> Len(grid)]

\* draw on a grid without rows: the first loop does nothing, and clearEnemyGridRows
\* throws a TypeError on this.enemyGrid[-1].length, which ends the frame
DrawOnNoRows(w) ==
    [w EXCEPT !.gridThrew = TRUE,
              !.calls = @ \o <<Call("draw", w.enemyGrid),
                               Call("clearEnemyGridRows", w.enemyGrid)>>]

EnemyGridControllerDraw(w, delays) ==
    IF Len(w.enemyGrid) = 0 THEN DrawOnNoRows(w) ELSE
    LET pre == DrawEnemies(w.enemyGrid)
        post == clearEnemyGridColumns(clearEnemyGridRows(pre))
        goOn == anyEnemiesAlive(post) # 0
        drawn == IF goOn THEN move(post) ELSE post
    IN  [w EXCEPT
            !.calls = @ \o <<Call("draw", w.enemyGrid), Call("clearEnemyGridRows", pre)>>
                        \o (IF goOn THEN <<Call("findBottomMostEnemies", drawn)>>
                                     ELSE <<>>),
            !.enemyGrid = drawn,
            !.enemyProjectileController = IF goOn THEN shoot(drawn, @, delays) ELSE @,
            !.trace = [drew |-> TRUE, pre |-> pre, post |-> post, drawn |-> drawn,
                       moved |-> goOn, shot |-> goOn,
                       bounces |-> IF goOn THEN BounceCalls(post) ELSE <<>>,
                       requests |->
                           IF goOn
                           THEN ShootLog(w.enemyProjectileController,
                                         findBottomMostEnemies(drawn), delays, 1)
                           ELSE <<>>,
                       waitBefore |-> w.enemyProjectileController.waitTime,
                       waitAfter |->
                           IF goOn
                           THEN shoot(drawn, w.enemyProjectileController, delays).waitTime
                           ELSE w.enemyProjectileController.waitTime]]

(* script.js startGame(), one case of the switch each *)
GameOver(w) ==
    [w EXCEPT !.gameState = GAME_STATE.GAME_OVER, !.menu = setupGameOverMenuScreen(@)]

StartWave(w, op) ==
    [createNewEnemyWave(w) EXCEPT !.op = op, !.created = TRUE, !.prior = w.enemyGrid]

\* a variant of RunMenu that starts the game on the wave and the pools as they are
RunMenuWithoutNewWave(w) ==
    LET w1 == MenuDraw(w, FALSE)
    IN  IF w1.threw THEN [w1 EXCEPT !.op = "menu"]
        ELSE IF w1.menu.playGame
             THEN [w1 EXCEPT !.gameState = GAME_STATE.RUNNING, !.op = "start"]
             ELSE [w1 EXCEPT !.op = "menu"]

RunMenu(w) ==
    LET w1 == MenuDraw(w, FALSE)
    IN  IF w1.threw THEN [w1 EXCEPT !.op = "menu"]
        ELSE IF w1.menu.playGame
             THEN StartWave([w1 EXCEPT !.gameState = GAME_STATE.RUNNING], "start")
             ELSE [w1 EXCEPT !.op = "menu"]

\* the rest of the RUNNING case after enemyGridController.draw has returned; the test
\* of checkIfEnemyMovesPastPlayer reads the bottom row when anyEnemiesAlive() is true
AfterDraw(w2) ==
    LET w3 == checkHealth(checkForCollisions(w2))
        w4 == IF anyEnemiesAlive(w3.enemyGrid) # 0
              THEN [w3 EXCEPT !.calls = @ \o <<Call("checkIfEnemyMovesPastPlayer",
                                                    w3.enemyGrid)>>]
              ELSE w3
    IN  [(IF checkIfEnemyMovesPastPlayer(w3.enemyGrid) THEN GameOver(w4) ELSE w4)
            EXCEPT !.op = "running"]

\* a variant of RunRunning without the test of anyEnemiesAlive(): every frame calls
\* enemyGridController.draw
RunRunningWithoutWaveTest(w, delays) ==
    LET w2 == EnemyGridControllerDraw(drawPlayer(drawGameUiComponents(w)), delays)
    IN  IF w2.gridThrew THEN [w2 EXCEPT !.op = "running"] ELSE AfterDraw(w2)

RunRunning(w, delays) ==
    LET w1 == drawPlayer(drawGameUiComponents(w))
    IN  IF anyEnemiesAlive(w1.enemyGrid) = 0
        THEN StartWave(w1, "newwave")
        ELSE LET w2 == EnemyGridControllerDraw(w1, delays)
             IN  IF w2.gridThrew THEN [w2 EXCEPT !.op = "running"] ELSE AfterDraw(w2)

RunGameOver(w) ==
    LET w1 == MenuDraw(w, TRUE)
    IN  IF w1.menu.retry
        THEN [w1 EXCEPT !.gameState = GAME_STATE.MENU,
                        !.health = resetHp(@),
                        !.scoreboard = resetScore(@),
                        !.op = "restart"]
        ELSE [w1 EXCEPT !.op = "gameover"]

World ==
    [gameState |-> gameState, menu |-> menu, player |-> player, Bulletcon |-> Bulletcon,
     enemyProjectileController |-> enemyProjectileController, enemyGrid |-> enemyGrid,
     health |-> health, scoreboard |-> scoreboard,
     op |-> "none", created |-> FALSE, prior |-> <<>>, trace |-> NoTrace,
     hits |-> <<>>, threw |-> FALSE, fire |-> NoFire, shots |-> <<>>, pass |-> NoPass,
     calls |-> <<>>, gridThrew |-> FALSE, seen |-> <<>>]

\* the game is running and the grid holds no enemy: the wave is over.  deadTicks
\* (history) counts the frames that have run since then without a new wave.
\* sinceShot (history) counts the frames that have drawn the player's pool since the
\* frame in which the pool last admitted a projectile; NeverShot before the first
NeverShot == 0 - 1

SinceShot(fire, before) ==
    IF ~fire.drew THEN before
    ELSE IF \E k \in 1..Len(fire.requests) : fire.requests[k].admitted THEN 0
    ELSE IF before = NeverShot THEN NeverShot
    ELSE before + 1

\* sinceTurn (history) counts the frames that have run since the frame in which
\* move() last called changeEnemyDirection; NeverTurned before the first
NeverTurned == 0 - 1

SinceTurn(trace, before) ==
    IF trace.bounces # <<>> THEN 0
    ELSE IF before = NeverTurned THEN NeverTurned
    ELSE before + 1

WaveIsDead(state, grid) ==
    /\ state = GAME_STATE.RUNNING
    /\ \A row \in Rows(grid) : \A col \in 1..Len(grid[row]) : ~grid[row][col].alive

History(w) ==
    [op |-> w.op, created |-> w.created, prior |-> w.prior, trace |-> w.trace,
     hits |-> w.hits, threw |-> w.threw, hpBefore |-> health.hp,
     fire |-> w.fire, shots |-> w.shots, pass |-> w.pass, gridBefore |-> enemyGrid,
     calls |-> w.calls, gridThrew |-> w.gridThrew, seen |-> w.seen,
     scoreBefore |-> scoreboard, xBefore |-> player.xPosition,
     stateBefore |-> gameState, menuBefore |-> menu,
     sinceTurn |-> SinceTurn(w.trace, last.sinceTurn), turnGap |-> last.sinceTurn,
     sinceShot |-> SinceShot(w.fire, last.sinceShot), gapBefore |-> last.sinceShot,
     bulletsBefore |-> [Bulletcon |-> Bulletcon.bullets,
                        enemyProjectileController |-> enemyProjectileController.bullets],
     deadTicks |-> IF WaveIsDead(w.gameState, w.enemyGrid) /\ ~w.created
                   THEN (IF WaveIsDead(gameState, enemyGrid) THEN last.deadTicks + 1 ELSE 0)
                   ELSE 0]

Becomes(w) ==
    /\ gameState' = w.gameState
    /\ menu' = w.menu
    /\ player' = w.player
    /\ Bulletcon' = w.Bulletcon
    /\ enemyProjectileController' = w.enemyProjectileController
    /\ enemyGrid' = w.enemyGrid
    /\ health' = w.health
    /\ scoreboard' = w.scoreboard
    /\ last' = History(w)

\* one call of startGame by the interval timer; delays are the values Math.random()
\* yields for the enemies' fire requests of this frame
StartGame(delays) ==
    /\ Becomes(CASE gameState = GAME_STATE.MENU -> RunMenu(World)
                 [] gameState = GAME_STATE.RUNNING -> RunRunning(World, delays)
                 [] gameState = GAME_STATE.GAME_OVER -> RunGameOver(World))
    /\ ticks' = ticks + 1
    /\ keys' = keys

(* the keyboard listeners: Player.keyDownHandler and Menu.keydownHandler both run on *)
(* a keydown, Player.keyUpHandler on a keyup                                         *)
Keys == {"ArrowRight", "ArrowLeft", "ArrowUp", "ArrowDown", "Enter", "Escape", "v", "p", "o"}

PlayerKeyDown(p, key) ==
    LET p1 == IF key = "ArrowRight" THEN [p EXCEPT !.rightPressed = TRUE]
              ELSE IF key = "ArrowLeft" THEN [p EXCEPT !.leftPressed = TRUE]
              ELSE p
    IN  IF key = "v" THEN [p1 EXCEPT !.shooting = TRUE] ELSE p1

HealthKeyDown(h, key) ==
    IF key = "p" THEN healthModifier(h, 1)
    ELSE IF key = "o" THEN healthModifier(h, -1)
    ELSE h

PlayerKeyUp(p, key) ==
    IF key = "ArrowRight" THEN [p EXCEPT !.rightPressed = FALSE]
    ELSE IF key = "ArrowLeft" THEN [p EXCEPT !.leftPressed = FALSE]
    ELSE IF key = "v" THEN [p EXCEPT !.shooting = FALSE]
    ELSE p

MenuKeydown(m, key) ==
    LET m1 ==
          IF key = "ArrowUp"
          THEN (IF m.selection = MENU_OPTIONS.PLAY
                THEN [m EXCEPT !.selection = MENU_OPTIONS.CONTROLS]
                ELSE IF m.selection = MENU_OPTIONS.HOW_TO_PLAY
                THEN [m EXCEPT !.selection = MENU_OPTIONS.PLAY]
                ELSE IF m.selection = MENU_OPTIONS.CONTROLS
                THEN [m EXCEPT !.selection = MENU_OPTIONS.HOW_TO_PLAY]
                ELSE m)
          ELSE IF key = "ArrowDown"
          THEN (IF m.selection = MENU_OPTIONS.PLAY
                THEN [m EXCEPT !.selection = MENU_OPTIONS.HOW_TO_PLAY]
                ELSE IF m.selection = MENU_OPTIONS.HOW_TO_PLAY
                THEN [m EXCEPT !.selection = MENU_OPTIONS.CONTROLS]
                ELSE IF m.selection = MENU_OPTIONS.CONTROLS
                THEN [m EXCEPT !.selection = MENU_OPTIONS.PLAY]
                ELSE m)
          ELSE m
        m2 ==
          IF key = "Enter"
          THEN (IF m1.selection = MENU_OPTIONS.GAME_OVER
                THEN [m1 EXCEPT !.selection = MENU_OPTIONS.PLAY,
                                !.menuState = MAIN_MENU_SCREEN,
                                !.retry = TRUE,
                                !.playGame = FALSE]
                ELSE [m1 EXCEPT !.menuState = m1.selection])
          ELSE m1
    IN  IF key = "Escape" THEN [m2 EXCEPT !.menuState = MAIN_MENU_SCREEN] ELSE m2

KeyEvent(op) ==
    [op |-> op, created |-> FALSE, prior |-> <<>>, trace |-> NoTrace,
     hits |-> <<>>, threw |-> FALSE, hpBefore |-> health.hp,
     fire |-> NoFire, shots |-> <<>>, pass |-> NoPass, gridBefore |-> enemyGrid,
     calls |-> <<>>, gridThrew |-> FALSE, seen |-> <<>>,
     scoreBefore |-> scoreboard, xBefore |-> player.xPosition,
     stateBefore |-> gameState, menuBefore |-> menu,
     sinceTurn |-> IF op = "load" THEN NeverTurned ELSE last.sinceTurn,
     turnGap |-> IF op = "load" THEN NeverTurned ELSE last.sinceTurn,
     sinceShot |-> IF op = "load" THEN NeverShot ELSE last.sinceShot,
     gapBefore |-> IF op = "load" THEN NeverShot ELSE last.sinceShot,
     bulletsBefore |-> [Bulletcon |-> Bulletcon.bullets,
                        enemyProjectileController |-> enemyProjectileController.bullets],
     deadTicks |-> IF op = "load" THEN 0 ELSE last.deadTicks]

KeyDownEvent(key) ==
    /\ player' = PlayerKeyDown(player, key)
    /\ health' = HealthKeyDown(health, key)
    /\ menu' = MenuKeydown(menu, key)
    /\ last' = KeyEvent("keydown")
    /\ keys' = keys + 1
    /\ UNCHANGED <<gameState, Bulletcon, enemyProjectileController, enemyGrid,
                   scoreboard, ticks>>

KeyUpEvent(key) ==
    /\ player' = PlayerKeyUp(player, key)
    /\ last' = KeyEvent("keyup")
    /\ keys' = keys + 1
    /\ UNCHANGED <<gameState, menu, Bulletcon, enemyProjectileController, enemyGrid,
                   health, scoreboard, ticks>>

-----------------------------------------------------------------------------
(* The state when script.js has been loaded: gameState = MENU, and the grid *)
(* was created once by enemyGridController.createEnemies()                  *)
Init ==
    /\ gameState = GAME_STATE.MENU
    /\ menu = NewMenu
    /\ player = NewPlayer
    /\ Bulletcon = NewBulletControl
    /\ enemyProjectileController = NewBulletControl
    /\ enemyGrid = createEnemies(<<>>)
    /\ health = NewHealth
    /\ scoreboard = NewScoreboard
    /\ last = KeyEvent("load")
    /\ ticks = 0
    /\ keys = 0

(* Spec: every key at any moment, for a few events and frames *)
MaxTicks == 3
MaxKeys == 5

\* Math.floor(Math.random() * 500) lies in 0..499.  The extremes are tried, one
\* value for all the fire requests of a frame.
RandomDelays == {0, 499}

KeyDown == \E key \in Keys : keys < MaxKeys /\ KeyDownEvent(key)

KeyUp == \E key \in {"ArrowRight", "ArrowLeft", "v"} : keys < MaxKeys /\ KeyUpEvent(key)

Tick ==
    \E d \in RandomDelays :
        ticks < MaxTicks /\ StartGame([col \in 1..GRID_SIZE.COLUMNS |-> d])

Next == KeyDown \/ KeyUp \/ Tick

Spec == Init /\ [][Next]_vars

(* SpecRun: a game played hands-off.  The keys are pressed on the menu before the *)
(* first frame and stay as they are; then the timer runs the game for MaxRunTicks *)
(* frames.  Every enemy fire request draws the longest delay.                     *)
MaxRunTicks == 600
MaxMenuKeys == 3

MenuKeys == {"Enter", "v", "ArrowLeft", "ArrowRight"}

LongDelays == [col \in 1..GRID_SIZE.COLUMNS |-> 499]

MenuKey ==
    \E key \in MenuKeys : ticks = 0 /\ keys < MaxMenuKeys /\ KeyDownEvent(key)

RunTick ==
    /\ menu.menuState = MENU_OPTIONS.PLAY \/ gameState # GAME_STATE.MENU
    /\ ticks < MaxRunTicks
    /\ StartGame(LongDelays)

NextRun == MenuKey \/ RunTick

SpecRun == Init /\ [][NextRun]_vars

(* SpecPlay: one game played by a pilot.  Plan lists the pilot's key events, each   *)
(* with the number of frames after which it happens.  The pilot clears the first  *)
(* wave with projectiles that strike two neighbouring columns at once, gives the  *)
(* health away with the 'o' key and plays again.                                  *)
MaxPlayTicks == 886

Plan ==
    << <<0, "down", "Enter">>, <<1, "down", "ArrowLeft">>, <<35, "down", "v">>,
       <<36, "up", "v">>, <<36, "up", "ArrowLeft">>, <<36, "down", "ArrowRight">>,
       <<38, "up", "ArrowRight">>, <<74, "down", "v">>, <<75, "up", "v">>,
       <<75, "down", "ArrowRight">>, <<77, "up", "ArrowRight">>, <<113, "down", "v">>,
       <<114, "up", "v">>, <<152, "down", "v">>, <<153, "up", "v">>,
       <<153, "down", "ArrowLeft">>, <<155, "up", "ArrowLeft">>, <<191, "down", "v">>,
       <<192, "up", "v">>, <<192, "down", "ArrowRight">>, <<206, "down", "p">>,
       <<215, "up", "ArrowRight">>, <<230, "down", "v">>, <<231, "up", "v">>,
       <<231, "down", "ArrowLeft">>, <<233, "up", "ArrowLeft">>, <<269, "down", "v">>,
       <<270, "up", "v">>, <<270, "down", "ArrowLeft">>, <<273, "up", "ArrowLeft">>,
       <<308, "down", "v">>, <<309, "up", "v">>, <<309, "down", "ArrowLeft">>,
       <<312, "up", "ArrowLeft">>, <<347, "down", "v">>, <<348, "up", "v">>,
       <<348, "down", "ArrowLeft">>, <<352, "up", "ArrowLeft">>, <<386, "down", "v">>,
       <<387, "up", "v">>, <<425, "down", "v">>, <<426, "up", "v">>,
       <<426, "down", "ArrowRight">>, <<428, "down", "p">>, <<440, "up", "ArrowRight">>,
       <<464, "down", "v">>, <<465, "up", "v">>, <<465, "down", "ArrowLeft">>,
       <<467, "up", "ArrowLeft">>, <<503, "down", "v">>, <<504, "up", "v">>,
       <<504, "down", "ArrowLeft">>, <<507, "up", "ArrowLeft">>, <<542, "down", "v">>,
       <<543, "up", "v">>, <<543, "down", "ArrowLeft">>, <<546, "up", "ArrowLeft">>,
       <<581, "down", "v">>, <<582, "up", "v">>, <<582, "down", "ArrowLeft">>,
       <<585, "up", "ArrowLeft">>, <<620, "down", "v">>, <<621, "up", "v">>,
       <<621, "down", "ArrowRight">>, <<624, "down", "p">>, <<644, "up", "ArrowRight">>,
       <<659, "down", "v">>, <<660, "up", "v">>, <<660, "down", "ArrowLeft">>,
       <<662, "up", "ArrowLeft">>, <<698, "down", "v">>, <<699, "up", "v">>,
       <<699, "down", "ArrowLeft">>, <<702, "up", "ArrowLeft">>, <<737, "down", "v">>,
       <<738, "up", "v">>, <<738, "down", "ArrowLeft">>, <<740, "up", "ArrowLeft">>,
       <<776, "down", "v">>, <<777, "up", "v">>, <<777, "down", "ArrowLeft">>,
       <<780, "up", "ArrowLeft">>, <<815, "down", "v">>, <<816, "up", "v">>,
       <<879, "down", "o">>, <<879, "down", "o">>, <<879, "down", "o">>,
       <<879, "down", "o">>, <<881, "down", "Enter">>, <<882, "down", "Enter">> >>

PlanDue == keys < Len(Plan) /\ Plan[keys + 1][1] = ticks

PilotKeyDown ==
    PlanDue /\ Plan[keys + 1][2] = "down" /\ KeyDownEvent(Plan[keys + 1][3])

PilotKeyUp ==
    PlanDue /\ Plan[keys + 1][2] = "up" /\ KeyUpEvent(Plan[keys + 1][3])

PilotTick == ~PlanDue /\ ticks < MaxPlayTicks /\ StartGame(LongDelays)

NextPlay == PilotKeyDown \/ PilotKeyUp \/ PilotTick

SpecPlay == Init /\ [][NextPlay]_vars

(* SpecBonus: a second game of the pilot, who now clears the columns two by two   *)
(* with four projectiles that strike both columns and one projectile for each of  *)
(* the two enemies of the top row, and restores lost health with the 'p' key.     *)
(* After 39 enemies the pilot's next projectile strikes two; the pilot then lets  *)
(* the four columns that are left sweep to the left bound.                        *)
MaxBonusTicks == 1410

BonusPlan ==
    << <<0, "down", "Enter">>, <<1, "down", "ArrowLeft">>, <<35, "down", "v">>,
       <<36, "up", "v">>, <<36, "up", "ArrowLeft">>, <<36, "down", "ArrowRight">>,
       <<38, "up", "ArrowRight">>, <<74, "down", "v">>, <<75, "up", "v">>,
       <<75, "down", "ArrowRight">>, <<77, "up", "ArrowRight">>, <<113, "down", "v">>,
       <<114, "up", "v">>, <<152, "down", "v">>, <<153, "up", "v">>,
       <<153, "down", "ArrowLeft">>, <<157, "up", "ArrowLeft">>, <<191, "down", "v">>,
       <<192, "up", "v">>, <<230, "down", "v">>, <<231, "up", "v">>,
       <<231, "down", "ArrowRight">>, <<245, "up", "ArrowRight">>, <<269, "down", "v">>,
       <<270, "up", "v">>, <<270, "down", "ArrowLeft">>, <<271, "up", "ArrowLeft">>,
       <<308, "down", "v">>, <<309, "up", "v">>, <<309, "down", "ArrowLeft">>,
       <<312, "up", "ArrowLeft">>, <<347, "down", "v">>, <<348, "up", "v">>,
       <<348, "down", "ArrowLeft">>, <<351, "up", "ArrowLeft">>, <<386, "down", "v">>,
       <<387, "up", "v">>, <<387, "down", "ArrowLeft">>, <<392, "up", "ArrowLeft">>,
       <<425, "down", "v">>, <<426, "up", "v">>, <<464, "down", "v">>,
       <<465, "up", "v">>, <<465, "down", "ArrowRight">>, <<475, "down", "p">>,
       <<479, "up", "ArrowRight">>, <<503, "down", "v">>, <<504, "up", "v">>,
       <<504, "down", "ArrowLeft">>, <<505, "up", "ArrowLeft">>, <<542, "down", "v">>,
       <<543, "up", "v">>, <<543, "down", "ArrowLeft">>, <<546, "up", "ArrowLeft">>,
       <<581, "down", "v">>, <<582, "up", "v">>, <<582, "down", "ArrowLeft">>,
       <<585, "up", "ArrowLeft">>, <<590, "down", "p">>, <<620, "down", "v">>,
       <<621, "up", "v">>, <<621, "down", "ArrowLeft">>, <<626, "up", "ArrowLeft">>,
       <<659, "down", "v">>, <<660, "up", "v">>, <<698, "down", "v">>,
       <<699, "up", "v">>, <<699, "down", "ArrowRight">>, <<713, "up", "ArrowRight">>,
       <<737, "down", "v">>, <<738, "up", "v">>, <<738, "down", "ArrowLeft">>,
       <<739, "up", "ArrowLeft">>, <<776, "down", "v">>, <<777, "up", "v">>,
       <<777, "down", "ArrowLeft">>, <<780, "up", "ArrowLeft">>, <<803, "down", "p">>,
       <<815, "down", "v">>, <<816, "up", "v">>, <<816, "down", "ArrowLeft">>,
       <<819, "up", "ArrowLeft">>, <<854, "down", "v">>, <<855, "up", "v">>,
       <<855, "down", "ArrowLeft">>, <<860, "up", "ArrowLeft">>, <<893, "down", "v">>,
       <<894, "up", "v">>, <<894, "down", "ArrowRight">>, <<911, "up", "ArrowRight">>,
       <<932, "down", "v">>, <<933, "up", "v">> >>

BonusDue == keys < Len(BonusPlan) /\ BonusPlan[keys + 1][1] = ticks

BonusKeyDown ==
    BonusDue /\ BonusPlan[keys + 1][2] = "down" /\ KeyDownEvent(BonusPlan[keys + 1][3])

BonusKeyUp ==
    BonusDue /\ BonusPlan[keys + 1][2] = "up" /\ KeyUpEvent(BonusPlan[keys + 1][3])

BonusTick == ~BonusDue /\ ticks < MaxBonusTicks /\ StartGame(LongDelays)

NextBonus == BonusKeyDown \/ BonusKeyUp \/ BonusTick

SpecBonus == Init /\ [][NextBonus]_vars

(* SpecSiege: a third game of the pilot, who destroys the bottom row of the wave,  *)
(* two enemies per projectile and the last one alone, restores lost health with   *)
(* the 'p' key and lets the four rows that are left come down to the player.      *)
MaxSiegeTicks == 3180

SiegePlan ==
    << <<0, "down", "Enter">>, <<1, "down", "ArrowLeft">>, <<35, "down", "v">>,
       <<36, "up", "v">>, <<36, "up", "ArrowLeft">>, <<36, "down", "ArrowRight">>,
       <<53, "up", "ArrowRight">>, <<74, "down", "v">>, <<75, "up", "v">>,
       <<75, "down", "ArrowRight">>, <<88, "down", "p">>, <<93, "up", "ArrowRight">>,
       <<113, "down", "v">>, <<114, "up", "v">>, <<114, "down", "ArrowRight">>,
       <<132, "up", "ArrowRight">>, <<152, "down", "v">>, <<153, "up", "v">>,
       <<153, "down", "ArrowRight">>, <<167, "up", "ArrowRight">>, <<191, "down", "v">>,
       <<192, "up", "v">>, <<192, "down", "ArrowRight">>, <<197, "up", "ArrowRight">>,
       <<230, "down", "v">>, <<231, "up", "v">>, <<276, "down", "p">>,
       <<412, "down", "p">>, <<768, "down", "p">>, <<1254, "down", "p">>,
       <<2361, "down", "p">>, <<2587, "down", "p">>, <<2723, "down", "p">>,
       <<2859, "down", "p">> >>

SiegeDue == keys < Len(SiegePlan) /\ SiegePlan[keys + 1][1] = ticks

SiegeKeyDown ==
    SiegeDue /\ SiegePlan[keys + 1][2] = "down" /\ KeyDownEvent(SiegePlan[keys + 1][3])

SiegeKeyUp ==
    SiegeDue /\ SiegePlan[keys + 1][2] = "up" /\ KeyUpEvent(SiegePlan[keys + 1][3])

SiegeTick == ~SiegeDue /\ ticks < MaxSiegeTicks /\ StartGame(LongDelays)

NextSiege == SiegeKeyDown \/ SiegeKeyUp \/ SiegeTick

SpecSiege == Init /\ [][NextSiege]_vars

(* SpecRestart: the way to the game-over screen and back.  The user has the keys   *)
(* of the menu and the 'o' key, which takes a life.  MaxRestartTicks frames are    *)
(* followed while the game is running; on the menu and on the game-over screen the *)
(* timer never stops, and the frame counter stops at MaxRestartTicks.              *)
MaxRestartTicks == 3
MaxRestartKeys == 7

RestartKeys == {"Enter", "Escape", "o"}

RestartKey ==
    \E key \in RestartKeys : keys < MaxRestartKeys /\ KeyDownEvent(key)

PlayTick ==
    /\ gameState = GAME_STATE.RUNNING
    /\ ticks < MaxRestartTicks
    /\ StartGame(LongDelays)

ScreenTick ==
    /\ gameState # GAME_STATE.RUNNING
    /\ Becomes(IF gameState = GAME_STATE.MENU THEN RunMenu(World) ELSE RunGameOver(World))
    /\ ticks' = IF ticks < MaxRestartTicks THEN ticks + 1 ELSE ticks
    /\ keys' = keys

NextRestart == RestartKey \/ PlayTick \/ ScreenTick

\* setInterval(startGame, 1000 / 60) keeps calling startGame
SpecRestart == Init /\ [][NextRestart]_vars /\ WF_vars(ScreenTick)

(* SpecInvade: a game left alone until the enemies arrive.  Enter and ArrowLeft may *)
(* be pressed on the menu; then the timer runs the game, every enemy fire request  *)
(* drawing the longest delay.  The grid bounces every 301 frames and has come down *)
(* nine steps after 2576 frames.                                                   *)
MaxInvadeTicks == 2580
MaxInvadeKeys == 2

InvadeKeys == {"Enter", "ArrowLeft"}

InvadeKey ==
    \E key \in InvadeKeys : ticks = 0 /\ keys < MaxInvadeKeys /\ KeyDownEvent(key)

InvadeTick ==
    /\ menu.menuState = MENU_OPTIONS.PLAY \/ gameState # GAME_STATE.MENU
    /\ ticks < MaxInvadeTicks
    /\ StartGame(LongDelays)

NextInvade == InvadeKey \/ InvadeTick

SpecInvade == Init /\ [][NextInvade]_vars

(* SpecVolley: the enemies' first volley.  After Enter the player may steer for a    *)
(* few frames.  In the first frame of play Math.random() may yield 0 for the fire  *)
(* requests, which admits one projectile per column; later requests draw the       *)
(* longest delay.  The game runs until the volley has passed the player.           *)
MaxVolleyTicks == 50
MaxSteerTicks == 4
MaxSteerKeys == 3

SteerKeys == {"ArrowLeft", "ArrowRight"}

VolleyStart == ticks = 0 /\ keys = 0 /\ KeyDownEvent("Enter")

SteerDown ==
    \E key \in SteerKeys :
        /\ keys >= 1 /\ keys < MaxSteerKeys /\ ticks <= MaxSteerTicks
        /\ KeyDownEvent(key)

SteerUp ==
    \E key \in SteerKeys :
        /\ keys >= 1 /\ keys < MaxSteerKeys /\ ticks <= MaxSteerTicks
        /\ KeyUpEvent(key)

VolleyTick ==
    \E d \in (IF ticks = 1 THEN RandomDelays ELSE {499}) :
        /\ keys >= 1 /\ ticks < MaxVolleyTicks
        /\ StartGame([col \in 1..GRID_SIZE.COLUMNS |-> d])

NextVolley == VolleyStart \/ SteerDown \/ SteerUp \/ VolleyTick

SpecVolley == Init /\ [][NextVolley]_vars

(* SpecCollide: collisionDetected on its own.  The two rectangles are drawn from a *)
(* small integer domain, each with positive width and height as every sprite and  *)
(* projectile has; the one step calls the function on them.                       *)
MaxCoord == 3
MaxSide == 2

Rectangles ==
    {[top |-> y, bottom |-> y + h, left |-> x, right |-> x + w] :
        x \in 0..MaxCoord, y \in 0..MaxCoord, w \in 1..MaxSide, h \in 1..MaxSide}

InitCollide ==
    /\ gameState = GAME_STATE.MENU
    /\ menu = NewMenu
    /\ player = NewPlayer
    /\ Bulletcon = NewBulletControl
    /\ enemyProjectileController = NewBulletControl
    /\ enemyGrid = createEnemies(<<>>)
    /\ health = NewHealth
    /\ scoreboard = NewScoreboard
    /\ \E sprite \in Rectangles, projectile \in Rectangles :
           last = [op |-> "rectangles", sprite |-> sprite, projectile |-> projectile,
                   result |-> FALSE]
    /\ ticks = 0
    /\ keys = 0

Collide ==
    /\ last.op = "rectangles"
    /\ last' = [last EXCEPT !.op = "collided",
                            !.result = collisionDetected(last.sprite, last.projectile)]
    /\ UNCHANGED <<gameState, menu, player, Bulletcon, enemyProjectileController,
                   enemyGrid, health, scoreboard, ticks, keys>>

NextCollide == Collide

SpecCollide == InitCollide /\ [][NextCollide]_vars

(* SpecDestroy: BulletControl.destroyBullet on its own.  The player's pool starts  *)
(* with up to MaxPool projectiles, all different objects, on one firing line; the *)
(* item to destroy is any projectile of that line, in the pool or not.  The       *)
(* function is called on the pool, and then once more with the same item.         *)
MaxPool == 3
MaxBulletY == 3

PoolBullets == {Bullet(0, y * PX, 5 * PX, "player") : y \in 0..MaxBulletY}

Pools ==
    {pool \in UNION {[1..n -> PoolBullets] : n \in 0..MaxPool} :
        \A i, j \in 1..Len(pool) : i # j => pool[i] # pool[j]}

InitDestroy ==
    /\ gameState = GAME_STATE.RUNNING
    /\ menu = NewMenu
    /\ player = NewPlayer
    /\ \E pool \in Pools, item \in PoolBullets :
           /\ Bulletcon = [bullets |-> pool, waitTime |-> 0, shooter |-> "player"]
           /\ last = [op |-> "pool", item |-> item, start |-> pool, before |-> pool]
    /\ enemyProjectileController = NewBulletControl
    /\ enemyGrid = createEnemies(<<>>)
    /\ health = NewHealth
    /\ scoreboard = NewScoreboard
    /\ ticks = 0
    /\ keys = 0

Destroy ==
    /\ last.op = "pool"
    /\ Bulletcon' = destroyBullet(Bulletcon, last.item)
    /\ last' = [last EXCEPT !.op = "destroyed", !.before = Bulletcon.bullets]
    /\ UNCHANGED <<gameState, menu, player, enemyProjectileController, enemyGrid,
                   health, scoreboard, ticks, keys>>

DestroyAgain ==
    /\ last.op = "destroyed"
    /\ Bulletcon' = destroyBullet(Bulletcon, last.item)
    /\ last' = [last EXCEPT !.op = "destroyed again", !.before = Bulletcon.bullets]
    /\ UNCHANGED <<gameState, menu, player, enemyProjectileController, enemyGrid,
                   health, scoreboard, ticks, keys>>

NextDestroy == Destroy \/ DestroyAgain

SpecDestroy == InitDestroy /\ [][NextDestroy]_vars

-----------------------------------------------------------------------------
(* Properties.  last.trace holds the grid of the last frame's draw call:   *)
(* pre when compaction starts, post when it ends, drawn when draw returns. *)

LiveCells(grid) ==
    {grid[rc[1]][rc[2]] :
        rc \in {cell \in Rows(grid) \X (1..GRID_SIZE.COLUMNS) :
                   cell[2] <= Len(grid[cell[1]]) /\ grid[cell[1]][cell[2]].alive}}

EqualRows(grid) == \A r1, r2 \in Rows(grid) : Len(grid[r1]) = Len(grid[r2])

AllDead(row) == \A col \in 1..Len(row) : ~row[col].alive

DeadColumn(grid, col) == \A row \in Rows(grid) : ~grid[row][col].alive

Drew == last.trace.drew

\* C1: after every call of EnemyGridController.draw all remaining rows have the same
\* length and no remaining column index holds a dead cell in every row.
C1_NoDeadColumnAfterDraw ==
    Drew =>
        LET grid == last.trace.drawn
        IN  /\ EqualRows(grid)
            /\ \A col \in 1..GRID_SIZE.COLUMNS :
                   (Len(grid) > 0 /\ col <= Len(grid[1])) => ~DeadColumn(grid, col)

\* C2: compaction removes only dead cells: the live enemies are the same before and
\* after clearEnemyGridRows and clearEnemyGridColumns.
C2_CompactionKeepsLiveEnemies ==
    Drew => LiveCells(last.trace.post) = LiveCells(last.trace.pre)

\* C3: a single player projectile tombstones at most one enemy (and so adds at most
\* 250 to the score), even when it overlaps several live enemies.
C3_OneEnemyPerProjectile ==
    \A i \in 1..Len(last.hits) : last.hits[i] <= 1

\* C4: the game never stays RUNNING after a RUNNING tick that ends with hp <= 0.
C4_NoHealthMeansGameOver ==
    (last.op = "running" /\ health.hp <= 0) => gameState = GAME_STATE.GAME_OVER

\* C5: after a pool's tick the pool holds no projectile whose y, as tested in that
\* tick (its y before Bullet.draw moved it), is <= -canvasHeight.
C5_OffScreenProjectilesRemoved ==
    last.op = "running" =>
        \A i \in 1..Len(Bulletcon.bullets) :
            LET b == Bulletcon.bullets[i]
            IN  ~(b.y + b.speed <= -CANVAS.HEIGHT)

\* C6: in each tick move() and shoot() are invoked iff at least one live cell remains
\* in the grid after compaction.
C6_MoveAndShootIffLive ==
    Drew =>
        /\ last.trace.moved <=> (LiveCells(last.trace.post) # {})
        /\ last.trace.shot <=> (LiveCells(last.trace.post) # {})

\* C7: after the compaction step, before move() and shoot(), every remaining row has
\* the same length and no remaining row is entirely dead.
C7_NoDeadRowAfterCompaction ==
    Drew =>
        LET grid == last.trace.post
        IN  EqualRows(grid) /\ \A row \in Rows(grid) : ~AllDead(grid[row])

\* C8: row compaction.  If the bottom row is entirely dead when compaction starts,
\* exactly that row is removed, otherwise none; the row count never drops by more
\* than one in a tick; and when the only row was removed the grid counts as empty:
\* anyEnemiesAlive() is false, so neither move() nor shoot() runs.
C8_RowCompaction ==
    Drew =>
        LET pre == last.trace.pre
            post == last.trace.post
        IN  /\ Len(post) = IF AllDead(pre[Len(pre)]) THEN Len(pre) - 1 ELSE Len(pre)
            /\ \A row \in Rows(post) : LiveCells(<<post[row]>>) \subseteq LiveCells(<<pre[row]>>)
            /\ Len(enemyGrid) >= Len(pre) - 1
            /\ (Len(pre) = 1 /\ AllDead(pre[1])) =>
                   (anyEnemiesAlive(enemyGrid) = 0 /\ ~last.trace.moved /\ ~last.trace.shot)

C8_Witness ==
    /\ Drew
    /\ Len(last.trace.pre[Len(last.trace.pre)]) > 0
    /\ AllDead(last.trace.pre[Len(last.trace.pre)])
    /\ Len(last.trace.post) = Len(last.trace.pre) - 1
    /\ Len(last.trace.post) > 0

AtLeftBound(grid) == \E e \in LiveCells(grid) : EnemyEdges(e).left <= PADDING.SIDE

AtRightBound(grid) ==
    \E e \in LiveCells(grid) : EnemyEdges(e).right >= CANVAS.WIDTH - PADDING.SIDE

Bounced(before, after, toGoRight) ==
    \A row \in Rows(before) : \A col \in 1..Len(before[row]) :
        before[row][col].alive =>
            /\ after[row][col].alive
            /\ after[row][col].isGoingRight = toGoRight
            /\ after[row][col].yPosition = before[row][col].yPosition + 20 * PX
            /\ after[row][col].xPosition = before[row][col].xPosition

C10_Bounce ==
    last.trace.moved =>
        /\ AtLeftBound(last.trace.post) => Bounced(last.trace.post, last.trace.drawn, TRUE)
        /\ AtRightBound(last.trace.post) => Bounced(last.trace.post, last.trace.drawn, FALSE)

C10_Witness ==
    /\ last.trace.moved
    /\ AtLeftBound(last.trace.post)
    /\ LiveCells(last.trace.drawn) # {}

\* C11: in a single tick at most one of the two bounce checks of move() fires:
\* changeEnemyDirection is called at most once, no enemy descends more than one
\* verticalStep (20) in the tick, and every enemy ends the tick with the direction of
\* that one call.
C11_OneBouncePerTick ==
    last.trace.moved =>
        LET post == last.trace.post
            drawn == last.trace.drawn
        IN  /\ Len(last.trace.bounces) <= 1
            /\ \A row \in Rows(post) : \A col \in 1..Len(post[row]) :
                   post[row][col].alive =>
                       /\ drawn[row][col].yPosition - post[row][col].yPosition
                              \in {0, 20 * PX}
                       /\ (drawn[row][col].yPosition # post[row][col].yPosition) =>
                              /\ Len(last.trace.bounces) = 1
                              /\ drawn[row][col].isGoingRight = last.trace.bounces[1]

C11_Witness ==
    /\ last.trace.moved
    /\ last.trace.bounces = <<FALSE>>
    /\ \E e \in LiveCells(last.trace.drawn) : ~e.isGoingRight /\ e.yPosition = 60 * PX

\* C12: collisionDetected(sprite, projectile) is true iff the two rectangles overlap by
\* a positive length on both axes; rectangles that only touch on an edge or a corner
\* are reported as not colliding.
OverlapLength(low1, high1, low2, high2) ==
    (IF high1 <= high2 THEN high1 ELSE high2) - (IF low1 >= low2 THEN low1 ELSE low2)

PositiveAreaOverlap(r1, r2) ==
    /\ OverlapLength(r1.left, r1.right, r2.left, r2.right) > 0
    /\ OverlapLength(r1.top, r1.bottom, r2.top, r2.bottom) > 0

C12_CollisionIffOverlap ==
    last.op = "collided" =>
        last.result = PositiveAreaOverlap(last.sprite, last.projectile)

C12_Witness ==
    /\ last.op = "collided"
    /\ last.projectile.left = last.sprite.right
    /\ OverlapLength(last.sprite.top, last.sprite.bottom,
                     last.projectile.top, last.projectile.bottom) > 0
    /\ ~last.result

\* C13: when a player projectile is tested against a live enemy it overlaps, then
\* within that tick the enemy's cell becomes a tombstone, the score grows by 250 (for
\* each such enemy) and the projectile is no longer in the player pool; health and
\* the enemy pool are unchanged by this.
\* The cells of live enemies that the projectile overlaps:
OverlappedBy(grid, projectile) ==
    {rc \in {cell \in Rows(grid) \X (1..GRID_SIZE.COLUMNS) :
                cell[2] <= Len(grid[cell[1]])} :
        /\ grid[rc[1]][rc[2]].alive
        /\ PositiveAreaOverlap(EnemyEdges(grid[rc[1]][rc[2]]), BulletEdges(projectile))}

\* all of them, over the projectiles the pass has tested
OverlappedInPass ==
    UNION {OverlappedBy(last.pass.mid.enemyGrid, last.shots[i].projectile) :
              i \in 1..Len(last.shots)}

C13_EnemyHit ==
    last.pass.ran =>
        /\ \A rc \in OverlappedInPass : ~enemyGrid[rc[1]][rc[2]].alive
        /\ \A i \in 1..Len(last.shots) :
               OverlappedBy(last.pass.mid.enemyGrid, last.shots[i].projectile) # {} =>
                   \A k \in 1..Len(Bulletcon.bullets) :
                       Bulletcon.bullets[k] # last.shots[i].projectile
        /\ scoreboard.score = last.pass.mid.score + 250 * Cardinality(OverlappedInPass)
        /\ health.hp = last.pass.mid.hp
        /\ enemyProjectileController.bullets = last.pass.mid.enemyProjectileController

C13_Witness ==
    /\ last.pass.ran
    /\ OverlappedInPass # {}
    /\ Len(last.pass.mid.Bulletcon) > Len(Bulletcon.bullets)

\* C14: when an enemy projectile overlaps the player at the collision pass, that
\* projectile is removed from the enemy pool and health drops by exactly 1 per such
\* projectile; the score, the grid and the player pool are unchanged by this.
\* The projectiles of the enemy pool that overlap the player when the pass starts:
OverlappingPlayer ==
    {i \in 1..Len(last.pass.start.enemyProjectileController) :
        PositiveAreaOverlap(PlayerEdges(player),
                            BulletEdges(last.pass.start.enemyProjectileController[i]))}

C14_PlayerHit ==
    last.pass.ran =>
        LET start == last.pass.start
            mid == last.pass.mid
        IN  /\ \A i \in OverlappingPlayer :
                   \A k \in 1..Len(mid.enemyProjectileController) :
                       mid.enemyProjectileController[k] # start.enemyProjectileController[i]
            /\ mid.hp = start.hp - Cardinality(OverlappingPlayer)
            /\ mid.score = start.score
            /\ mid.enemyGrid = start.enemyGrid
            /\ mid.Bulletcon = start.Bulletcon

\* The fire requests of the last frame, per pool, with the pool's counter when the
\* frame's last call on the pool has returned.
PoolLogs ==
    {[requests |-> last.trace.requests, waitAfter |-> last.trace.waitAfter],
     [requests |-> last.fire.requests, waitAfter |-> last.fire.waitAfter]}

Admitted(requests) == {k \in 1..Len(requests) : requests[k].admitted}

\* C15: BulletControl.shoot adds a new projectile iff waitTime <= 0 at the call; on
\* admission waitTime equals the requested delay when the call returns; on rejection
\* the pool's items are unchanged.  For both shooter categories.
C15_AdmitIffReady ==
    \A log \in PoolLogs : \A k \in 1..Len(log.requests) :
        LET r == log.requests[k]
        IN  /\ r.admitted <=> (r.waitBefore <= 0)
            /\ r.admitted => (r.waitAfter = r.delay /\ r.kept)
            /\ ~r.admitted => (r.kept /\ r.sizeAfter = r.sizeBefore)

\* C16: a fire request made while waitTime = n > 0 is rejected with the pool size
\* unchanged, and an identical request is admitted after n ticks of decrement and not
\* before.  So no later request of the same tick is admitted, and when the tick is
\* over at most one tick of decrement has passed: the counter is n - 1.
C16_RejectedUntilCountedDown ==
    \A log \in PoolLogs : \A k \in 1..Len(log.requests) :
        LET r == log.requests[k]
        IN  r.waitBefore > 0 =>
                /\ ~r.admitted
                /\ r.sizeAfter = r.sizeBefore
                /\ \A later \in (k + 1)..Len(log.requests) : ~log.requests[later].admitted
                /\ log.waitAfter = r.waitBefore - 1

\* C17: each projectile pool admits at most one new projectile per tick.
C17_OneAdmissionPerTick ==
    \A log \in PoolLogs : Cardinality(Admitted(log.requests)) <= 1

\* C18: each pool's cooldown counter is decremented exactly once per tick: while it
\* counts down, the enemy pool's counter drops by 1 in a tick in which enemies
\* request fire, however many request, and the player pool's counter drops by 1 per
\* draw call.
C18_OneDecrementPerTick ==
    /\ (/\ last.trace.shot
        /\ last.trace.requests # <<>>
        /\ last.trace.waitBefore > 0
        /\ Admitted(last.trace.requests) = {})
           => last.trace.waitAfter = last.trace.waitBefore - 1
    /\ (last.fire.drew /\ last.fire.waitBefore > 0 /\ Admitted(last.fire.requests) = {})
           => last.fire.waitAfter = last.fire.waitBefore - 1

\* C19: in each tick where shoot() runs, a fire request is made for exactly one enemy
\* per column that holds a live cell, the live cell with the greatest row index of
\* that column, from the origin (midX, bottomEdge) of that enemy, by rising column;
\* none for a fully dead column, and none for an enemy with a live enemy below it.
LiveColumns(grid) ==
    {col \in 1..GRID_SIZE.COLUMNS :
        \E row \in Rows(grid) : col <= Len(grid[row]) /\ grid[row][col].alive}

LowestLive(grid, col) ==
    LET live == {row \in Rows(grid) : col <= Len(grid[row]) /\ grid[row][col].alive}
    IN  grid[CHOOSE row \in live : \A other \in live : other <= row][col]

C19_BottomMostRequests ==
    last.trace.shot =>
        LET grid == last.trace.drawn
            requests == last.trace.requests
        IN  /\ Len(requests) = Cardinality(LiveColumns(grid))
            /\ \A col \in LiveColumns(grid) :
                   LET k == Cardinality({c \in LiveColumns(grid) : c <= col})
                       e == LowestLive(grid, col)
                   IN  /\ requests[k].x = e.xPosition + 15 * PX
                       /\ requests[k].y = e.yPosition + 40 * PX

C19_Witness ==
    /\ last.trace.shot
    /\ \E col \in LiveColumns(last.trace.drawn) :
           ~last.trace.drawn[Len(last.trace.drawn)][col].alive

\* C20: checkIfEnemyMovesPastPlayer() is true iff the grid is not empty and some live
\* cell of the current bottom row has its bottom edge > CANVAS.HEIGHT - PADDING.BOTTOM
\* (400); and whenever it is true at the end of a RUNNING tick the game state has
\* become GAME_OVER.
PastPlayer(grid) ==
    /\ Len(grid) > 0
    /\ \E col \in 1..Len(grid[Len(grid)]) :
           /\ grid[Len(grid)][col].alive
           /\ grid[Len(grid)][col].yPosition + 40 * PX > 400 * PX

C20_EnemyPastPlayer ==
    last.op = "running" =>
        /\ checkIfEnemyMovesPastPlayer(enemyGrid) <=> PastPlayer(enemyGrid)
        /\ PastPlayer(enemyGrid) => gameState = GAME_STATE.GAME_OVER

C20_Witness ==
    /\ last.op = "running"
    /\ PastPlayer(enemyGrid)
    /\ health.hp > 0
    /\ gameState = GAME_STATE.GAME_OVER
    /\ menu.menuState = MENU_OPTIONS.GAME_OVER

\* C21: within a wave (between two createEnemies calls) a tombstoned cell never
\* becomes live again, the number of live enemies never increases, and the grid's row
\* count and column count never increase.
\* An enemy of `after` is the enemy `e` of `before`, one frame later:
SameEnemy(e, after) ==
    /\ after.xPosition - e.xPosition \in {horizontalMoveSpeed, -horizontalMoveSpeed, 0}
    /\ after.yPosition - e.yPosition \in {0, verticalMoveSpeed}

C21_WaveOnlyShrinks ==
    ~last.created =>
        LET before == last.gridBefore
            after == enemyGrid
        IN  /\ \A e \in LiveCells(after) : \E was \in LiveCells(before) : SameEnemy(was, e)
            /\ Cardinality(LiveCells(after)) <= Cardinality(LiveCells(before))
            /\ Len(after) <= Len(before)
            /\ \A row \in Rows(after) : Len(after[row]) <= Len(before[row])
            /\ (/\ Len(after) = Len(before)
                /\ \A row \in Rows(after) : Len(after[row]) = Len(before[row]))
                   => \A row \in Rows(after) : \A col \in 1..Len(after[row]) :
                          ~before[row][col].alive => ~after[row][col].alive

C21_Witness ==
    /\ ~last.created
    /\ last.pass.ran
    /\ Cardinality(LiveCells(enemyGrid)) < Cardinality(LiveCells(last.gridBefore))
    /\ \E row \in Rows(enemyGrid) : Len(enemyGrid[row]) < Len(last.gridBefore[row])
    /\ \E row \in Rows(enemyGrid) : \E col \in 1..Len(enemyGrid[row]) :
           ~enemyGrid[row][col].alive

C23_PoolsEmptyAtNewWave ==
    last.created =>
        /\ Bulletcon.bullets = <<>>
        /\ enemyProjectileController.bullets = <<>>
        /\ ~last.pass.ran
        /\ last.shots = <<>>
        /\ Cardinality(LiveCells(enemyGrid)) = GRID_SIZE.ROWS * GRID_SIZE.COLUMNS

C23_Witness ==
    /\ last.created
    /\ last.op = "newwave"
    /\ last.bulletsBefore.enemyProjectileController # <<>>
    /\ Bulletcon.bullets = <<>>
    /\ enemyProjectileController.bullets = <<>>

\* C24: destroyBullet(item) removes exactly that projectile when it is in the pool,
\* leaving all other projectiles and their relative order unchanged, and is a no-op
\* (pool unchanged) when the projectile is absent; calling it twice with the same
\* item equals calling it once.
Holds(pool, item) == \E i \in 1..Len(pool) : pool[i] = item

\* the pool's other projectiles, in the pool's order
Others(pool, item) == SelectSeq(pool, LAMBDA b : b # item)

C24_DestroyBullet ==
    /\ last.op \in {"destroyed", "destroyed again"} =>
           /\ Holds(last.start, last.item) =>
                  /\ Len(Bulletcon.bullets) = Len(last.start) - 1
                  /\ ~Holds(Bulletcon.bullets, last.item)
                  /\ Bulletcon.bullets = Others(last.start, last.item)
           /\ ~Holds(last.start, last.item) => Bulletcon.bullets = last.start
           /\ Bulletcon.waitTime = 0
    /\ last.op = "destroyed again" => Bulletcon.bullets = last.before

C24_Witness ==
    /\ last.op = "destroyed again"
    /\ Len(last.start) = 3
    /\ last.start[2] = last.item
    /\ Bulletcon.bullets = <<last.start[1], last.start[3]>>

\* C25: keyboard events only flip the boolean intent flags (left, right, shooting)
\* that the next tick consumes: no key event changes the grid, the pools, the health
\* or the score, so this state changes only inside a tick.
C25_KeysOnlyFlipFlags ==
    [][keys' # keys =>
          /\ UNCHANGED <<enemyGrid, Bulletcon, enemyProjectileController, health,
                         scoreboard>>
          /\ player'.xPosition = player.xPosition]_vars

\* C26: no reachable state invokes a grid operation that would fail:
\* EnemyGridController.draw, clearEnemyGridRows, findBottomMostEnemies and the
\* bottom-row access of checkIfEnemyMovesPastPlayer are only ever executed when the
\* grid has at least one row, across all ticks, kills, wave changes and restarts.
C26_GridOperationsHaveARow ==
    /\ ~last.gridThrew
    /\ \A k \in 1..Len(last.calls) : last.calls[k].rows >= 1
    /\ Drew => Len(last.gridBefore) >= 1 /\ Len(last.trace.pre) >= 1
    /\ last.trace.shot => Len(last.trace.drawn) >= 1

\* the frame whose draw removes the grid's only row: neither findBottomMostEnemies
\* nor the bottom row access of checkIfEnemyMovesPastPlayer follows
C26_Witness ==
    /\ last.op = "running"
    /\ Len(enemyGrid) = 0
    /\ last.calls = <<Call("draw", last.gridBefore),
                      Call("clearEnemyGridRows", last.gridBefore)>>
    /\ Len(last.gridBefore) = 1
    /\ ~last.gridThrew

\* C27: in each collision pass every projectile that is in a pool at the start of the
\* pass is tested against its targets: none is skipped because another projectile was
\* destroyed earlier in the pass, so no projectile that overlaps a live target at the
\* pass survives the pass with that target unaffected.
\* (The enemy pool is searched from the state at the start of the pass, the player
\* pool from the state between the two searches.)
C27_NoProjectileSkipped ==
    last.pass.ran =>
        LET start == last.pass.start
            mid == last.pass.mid
        IN  /\ \A i \in 1..Len(start.enemyProjectileController) :
                   Holds(last.seen, start.enemyProjectileController[i])
            /\ \A i \in 1..Len(mid.Bulletcon) :
                   \E k \in 1..Len(last.shots) : last.shots[k].projectile = mid.Bulletcon[i]
            /\ \A i \in OverlappingPlayer :
                   \/ ~Holds(mid.enemyProjectileController,
                             start.enemyProjectileController[i])
                   \/ mid.hp < start.hp
            /\ \A i \in 1..Len(mid.Bulletcon) :
                   \A rc \in OverlappedBy(mid.enemyGrid, mid.Bulletcon[i]) :
                       \/ ~Holds(Bulletcon.bullets, mid.Bulletcon[i])
                       \/ ~enemyGrid[rc[1]][rc[2]].alive

\* C28: a projectile that has exited the visible band (above the top for player
\* shots, below the bottom for enemy shots) does not stay in its pool indefinitely;
\* without clearBullets() the pools stay bounded within a wave.  With the margin of
\* one canvas height that the pool's own test allows: after a pool's tick no
\* projectile of the pool was, when that tick tested it, a canvas height or more
\* beyond the edge it travels to.
FarBeyondBand(b) ==
    LET tested == b.y + b.speed
    IN  IF b.speed > 0 THEN tested <= -CANVAS.HEIGHT ELSE tested >= 2 * CANVAS.HEIGHT

C28_ExitedProjectilesLeave ==
    last.op = "running" =>
        /\ \A i \in 1..Len(Bulletcon.bullets) : ~FarBeyondBand(Bulletcon.bullets[i])
        /\ \A i \in 1..Len(enemyProjectileController.bullets) :
               ~FarBeyondBand(enemyProjectileController.bullets[i])

\* C29: with the fire key held, consecutive player projectiles are admitted at least
\* 39 ticks apart (the player's delay): the player pool never admits two projectiles
\* within fewer than 39 ticks of each other, and a request made when the cooldown has
\* elapsed (39 ticks of the pool or more after the last admission, or before any) is
\* admitted on that tick.
CooldownElapsed == last.gapBefore = NeverShot \/ last.gapBefore + 1 >= 39

C29_PlayerFireRate ==
    last.fire.drew =>
        /\ Admitted(last.fire.requests) # {} => CooldownElapsed
        /\ (last.fire.requests # <<>> /\ CooldownElapsed)
               => Admitted(last.fire.requests) # {}

C29_Witness ==
    /\ last.fire.drew
    /\ Admitted(last.fire.requests) # {}
    /\ last.gapBefore + 1 = 39
    /\ player.shooting

\* C30: enemy motion.  In every tick (that draws the grid) each live enemy's x changes
\* by exactly +horizontalSpeed (0.3) if its direction is Right and by exactly
\* -horizontalSpeed otherwise; within a wave no enemy's y ever decreases: y changes
\* only by +verticalStep (20), on a bounce.
\* `after` is the enemy `e` one tick of motion later:
Advanced(e, after) ==
    /\ after.xPosition =
           e.xPosition + (IF e.isGoingRight THEN (3 * PX) \div 10 ELSE -((3 * PX) \div 10))
    /\ after.yPosition \in {e.yPosition, e.yPosition + 20 * PX}
    /\ after.yPosition # e.yPosition => Len(last.trace.bounces) >= 1

C30_EnemyMotion ==
    /\ Drew =>
           LET before == last.gridBefore
               pre == last.trace.pre
           IN  /\ \A row \in Rows(before) : \A col \in 1..Len(before[row]) :
                      before[row][col].alive =>
                          /\ pre[row][col].alive
                          /\ Advanced(before[row][col], pre[row][col])
                          /\ pre[row][col].yPosition = before[row][col].yPosition
               /\ \A e \in LiveCells(enemyGrid) :
                      \E was \in LiveCells(before) : Advanced(was, e)
    /\ (~Drew /\ ~last.created) => enemyGrid = last.gridBefore

C30_Witness ==
    /\ Drew
    /\ last.trace.bounces = <<TRUE>>
    /\ \E was \in LiveCells(last.gridBefore) : \E e \in LiveCells(enemyGrid) :
           /\ ~was.isGoingRight
           /\ e.isGoingRight
           /\ e.xPosition = was.xPosition - horizontalMoveSpeed
           /\ e.yPosition = was.yPosition + verticalMoveSpeed

\* C31: each time the accumulated bonus score reaches the 10000-point threshold,
\* exactly one extra life is granted (health +1) and the accumulator restarts; no
\* threshold crossing is missed, whatever number of enemies are destroyed in a single
\* tick.  Per frame of play: the accumulator that the frame's drawScoreboard finds
\* (before), what it leaves (examined) and the health it adds (granted).
C31_BonusLife ==
    (last.op = "running" /\ last.pass.ran) =>
        LET before == last.scoreBefore.scoreStorage
            examined == scoreboard.scoreStorage - (scoreboard.score - last.pass.start.score)
            granted == last.pass.start.hp - last.hpBefore
        IN  /\ before >= 10000 => (granted = 1 /\ examined = before - 10000)
            /\ before < 10000 => (granted = 0 /\ examined = before)

\* C32: the player stays inside the side-padding band for every sequence of key
\* events and ticks: PADDING.SIDE (60) <= player.xPosition <=
\* CANVAS.WIDTH - PADDING.SIDE - width (550) in every reachable state.
C32_PlayerInBand ==
    /\ PADDING.SIDE <= player.xPosition
    /\ player.xPosition <= CANVAS.WIDTH - PADDING.SIDE - PlayerWidth

\* a frame with ArrowRight held finds the player at 550 and leaves it there
C32_Witness ==
    /\ last.op = "running"
    /\ player.rightPressed
    /\ last.xBefore = CANVAS.WIDTH - PADDING.SIDE - PlayerWidth
    /\ player.xPosition = last.xBefore

\* C33: bounded sweep.  In every reachable state every live enemy lies within one
\* horizontal step of the sweep band: its left edge is > PADDING.SIDE -
\* horizontalSpeed and its right edge is < CANVAS.WIDTH - PADDING.SIDE +
\* horizontalSpeed, regardless of which rows or columns have been destroyed or
\* compacted.
C33_BoundedSweep ==
    \A enemy \in LiveCells(enemyGrid) :
        LET edges == EnemyEdges(enemy)
        IN  /\ edges.left > PADDING.SIDE - horizontalMoveSpeed
            /\ edges.right < CANVAS.WIDTH - PADDING.SIDE + horizontalMoveSpeed

\* seven columns have been removed from the wave, and an enemy of the column that
\* is now the first has just touched the left bound and turned
C33_Witness ==
    /\ last.op = "running"
    /\ Len(enemyGrid) > 0
    /\ Len(enemyGrid[1]) <= GRID_SIZE.COLUMNS - 7
    /\ last.trace.bounces = <<TRUE>>
    /\ \E enemy \in LiveCells(enemyGrid) : EnemyEdges(enemy).left <= PADDING.SIDE

\* the cells of the grid that hold an enemy, as <<row, column index>>
LiveAt(grid) ==
    {rc \in Rows(grid) \X (1..GRID_SIZE.COLUMNS) :
        rc[2] <= Len(grid[rc[1]]) /\ grid[rc[1]][rc[2]].alive}

\* C34: the grid moves as a rigid body.  In every reachable state all live enemies
\* have the same direction, all live enemies in the same column index have the same
\* x, and all live enemies in the same row have the same y, so that move()'s test of
\* the first live left-edge / right-edge cell is the test of any such cell.
C34_RigidBody ==
    \A a, b \in LiveAt(enemyGrid) :
        LET ea == enemyGrid[a[1]][a[2]]
            eb == enemyGrid[b[1]][b[2]]
        IN  /\ ea.isGoingRight = eb.isGoingRight
            /\ a[2] = b[2] => ea.xPosition = eb.xPosition
            /\ a[1] = b[1] => ea.yPosition = eb.yPosition

\* a wave that has turned at the right bound and lost columns, with live enemies
\* next to destroyed ones in two rows and two columns
C34_Witness ==
    /\ last.op = "running"
    /\ Len(enemyGrid) > 0
    /\ Len(enemyGrid[1]) < GRID_SIZE.COLUMNS
    /\ \E a, b \in LiveAt(enemyGrid) :
           /\ a[1] # b[1] /\ a[2] # b[2]
           /\ ~enemyGrid[a[1]][a[2]].isGoingRight
           /\ ~enemyGrid[a[1]][b[2]].alive

\* the directions that the live enemies have when move() makes its k-th call of
\* changeEnemyDirection in a frame
DirectionsAtCall(k) ==
    IF k = 1 THEN {enemy.isGoingRight : enemy \in LiveCells(last.trace.post)}
    ELSE {last.trace.bounces[k - 1]}

\* C35: enemies descend only on an actual reversal.  Every tick in which
\* changeEnemyDirection runs changes the live enemies' direction (it is never called
\* with the direction they already have), and it never runs in two consecutive ticks.
C35_DescendOnlyOnReversal ==
    last.trace.bounces # <<>> =>
        /\ \A k \in 1..Len(last.trace.bounces) :
               last.trace.bounces[k] \notin DirectionsAtCall(k)
        /\ last.turnGap # 0

\* the wave, which turned at the right bound some frames ago, turns at the left one
C35_Witness ==
    /\ last.op = "running"
    /\ last.trace.bounces = <<TRUE>>
    /\ last.turnGap > 0
    /\ LiveCells(last.trace.post) # {}

\* C36: the bottom-row-only invasion check misses nothing.  At the end of every
\* RUNNING tick checkIfEnemyMovesPastPlayer() is true iff some live enemy anywhere in
\* the grid has bottomEdge > 400, even when the current bottom row consists only of
\* tombstones (rows are compacted at most one per tick).
C36_InvasionCheckMissesNothing ==
    last.op = "running" =>
        (checkIfEnemyMovesPastPlayer(enemyGrid)
            <=> \E enemy \in LiveCells(enemyGrid) :
                   EnemyEdges(enemy).bottom > CANVAS.HEIGHT - PADDING.BOTTOM)

\* a frame of play ends with a bottom row of tombstones below live enemies
C36_Witness ==
    /\ last.op = "running"
    /\ Len(enemyGrid) > 1
    /\ LiveCells(enemyGrid) # {}
    /\ \A col \in 1..Len(enemyGrid[Len(enemyGrid)]) :
           ~enemyGrid[Len(enemyGrid)][col].alive

\* the user has just pressed Enter on the game-over screen: the key handler found
\* selection = GAME_OVER and set it to PLAY
EnterOnGameOverScreen ==
    /\ gameState = GAME_STATE.GAME_OVER
    /\ last.op = "keydown"
    /\ last.menuBefore.selection = MENU_OPTIONS.GAME_OVER
    /\ menu.selection = MENU_OPTIONS.PLAY

\* C37: from GAME_OVER the game can always be restarted.  For every interleaving of
\* key events and ticks, once the user presses Enter on the game-over screen the game
\* state returns to MENU with health reset to 3 and score reset to 0, and no sequence
\* of key presses (Enter pressed twice between two ticks, Escape) leaves the game
\* permanently in GAME_OVER.
C37_RestartAfterEnter ==
    EnterOnGameOverScreen ~>
        (gameState = GAME_STATE.MENU /\ health.hp = 3 /\ scoreboard.score = 0)

\* after the second Enter: the game is over, the selection is no longer GAME_OVER and
\* retry has been cleared by Menu.draw
GameOverForGood ==
    /\ gameState = GAME_STATE.GAME_OVER
    /\ menu.selection # MENU_OPTIONS.GAME_OVER
    /\ ~menu.retry

\* no key event and no frame leads out of such a state
GameOverForGoodIsClosed == [][GameOverForGood => GameOverForGood']_vars

C39_MaxHPFollowsHp ==
    /\ health.maxHP <= 3
    /\ (health.hp >= 0 /\ health.hp <= 3) => health.maxHP = health.hp

=============================================================================
